---- MODULE Spec2Model ----
(***************************************************************************)
(* WeatherABC, the abstract base class of the weather objects of elib_wx   *)
(* (src/elib_wx/weather_abc.py).                                           *)
(*                                                                         *)
(* The concrete members of the class are the station_icao property (getter *)
(* and setter), as_str and as_speech.  The abstract members they call, and *)
(* the abstract mission operations, are modelled from their contracts.     *)
(*                                                                         *)
(* Every operation is one action.  An action records the operation, its    *)
(* arguments and its outcome in `last`, and the calls the operation made,  *)
(* in order, in `calls` (station property) or `rendered` (text rendering). *)
(***************************************************************************)
EXTENDS Naturals, Sequences, FiniteSets, TLC

\* ------------------------------------------------------------------ bounds

\* The counter of failed assignments saturates here.
MaxFailed == 2
\* Condition values a report can carry: 0 .. NumConditions.
NumConditions == 2

\* ------------------------------------------------------------------ values

\* An attribute that was never assigned (reading it raises AttributeError).
Unset == "<unset>"

\* Station codes offered to the setter.
Codes == {"XXXX", "KJFK", "UGTB", "ABC"}

\* Values the process-wide placeholder may be configured to ("XXXX" is the
\* default named by the getter's docstring).
DummyCodes == {"XXXX", "KJFK"}

\* The codes avwx.core.valid_station accepts.
ValidStations == {"KJFK", "UGTB"}

\* The codes the airport database knows, with their names.
KnownAirports == {"KJFK"}

AirportName(icao) == "John F Kennedy Intl"

ConditionValues == 0 .. NumConditions

\* The part of a mission that is not weather.
Others == {"briefing A", "briefing B"}

\* A mission object: its identity, its weather and the rest of it.
Mission(id, weather, other) == [id |-> id, weather |-> weather, other |-> other]

\* Paths of mission archives.
Paths == {"source.miz", "out.miz"}

\* What a path holds: nothing, bytes that are no archive, an archive cut short
\* by a failed write, or an archive with its mission.
Absent == [kind |-> "absent", weather |-> 0, other |-> ""]

Corrupt == [kind |-> "corrupt", weather |-> 0, other |-> ""]

Partial == [kind |-> "partial", weather |-> 0, other |-> ""]

Miz(weather, other) == [kind |-> "miz", weather |-> weather, other |-> other]

\* The archives present before the program runs.
InitialContents == {Absent, Corrupt} \cup {Miz(0, o) : o \in Others}

\* The overwrite argument of apply_to_miz as the caller writes it.
OverwriteArgs == {"omitted", "True", "False"}

\* What a call does: returns a value or raises.  A value is a sequence of
\* words; None is the empty sequence.
Return(value) == [kind |-> "return", value |-> value]

Raise(error) == [kind |-> "raise", value |-> <<error>>]

None == << >>

Call(fn, arg) == [fn |-> fn, arg |-> arg]

VARIABLES
    dummy_icao_code,  \* Config.dummy_icao_code
    self,             \* the instance: _station_icao, station_name, conditions
    last,             \* the last operation: op, arg, outcome
    calls,            \* the calls the last station_icao assignment made
    rendered,         \* the calls the last as_str / as_speech made to _as_str
    assigned,         \* the value of the last assignment that succeeded
    failed,           \* the number of assignments that failed (saturating)
    files,            \* the file system: what each path holds
    missions,         \* the last apply_to_mission_dict: the mission passed,
                      \* the caller's object after the call, the mission returned
    texts             \* by mode, what the last two renderings returned since
                      \* the instance was last modified

vars == <<dummy_icao_code, self, last, calls, rendered, assigned, failed,
          files, missions, texts>>

\* ------------------------------------------------------- station property

\* avwx.core.valid_station: raises for a code it does not accept.
valid_station(value) ==
    IF value \in ValidStations THEN Return(None) ELSE Raise("BadStation")

getter_hard_coded(s) ==
    IF s._station_icao # Unset THEN s._station_icao ELSE "XXXX"

\* The getter: the stored identifier, or the configured placeholder when the
\* attribute was never set.
station_icao(s) ==
    IF s._station_icao # Unset THEN s._station_icao ELSE dummy_icao_code

\* _set_station_name: the airport's name for the identifier the getter
\* returns, "unknown station" when the lookup fails.
_set_station_name(s) ==
    [s EXCEPT !.station_name =
        IF station_icao(s) \in KnownAirports
        THEN AirportName(station_icao(s))
        ELSE "unknown station"]

setter_store_first(s, value) ==
    LET checked == value # dummy_icao_code
        verdict == IF checked THEN valid_station(value) ELSE Return(None)
        stored  == [s EXCEPT !._station_icao = value]
        check   == IF checked THEN <<Call("valid_station", value)>> ELSE << >>
    IN  IF verdict.kind = "raise"
        THEN [self |-> stored, outcome |-> verdict,
              calls |-> <<Call("store", value)>> \o check]
        ELSE [self |-> _set_station_name(stored), outcome |-> Return(None),
              calls |-> <<Call("store", value)>> \o check
                        \o <<Call("_set_station_name", station_icao(stored))>>]

setter_name_first(s, value) ==
    LET checked == value # dummy_icao_code
        verdict == IF checked THEN valid_station(value) ELSE Return(None)
        check   == IF checked THEN <<Call("valid_station", value)>> ELSE << >>
        named   == _set_station_name(s)
    IN  IF verdict.kind = "raise"
        THEN [self |-> s, outcome |-> verdict, calls |-> check]
        ELSE [self |-> [named EXCEPT !._station_icao = value],
              outcome |-> Return(None),
              calls |-> check \o <<Call("_set_station_name", station_icao(s)),
                                   Call("store", value)>>]

setter_no_name(s, value) ==
    LET checked == value # dummy_icao_code
        verdict == IF checked THEN valid_station(value) ELSE Return(None)
        check   == IF checked THEN <<Call("valid_station", value)>> ELSE << >>
    IN  IF verdict.kind = "raise"
        THEN [self |-> s, outcome |-> verdict, calls |-> check]
        ELSE [self |-> [s EXCEPT !._station_icao = value],
              outcome |-> Return(None),
              calls |-> check \o <<Call("store", value)>>]

setter_validate_always(s, value) ==
    LET verdict == valid_station(value)
        check   == <<Call("valid_station", value)>>
        stored  == [s EXCEPT !._station_icao = value]
    IN  IF verdict.kind = "raise"
        THEN [self |-> s, outcome |-> verdict, calls |-> check]
        ELSE [self |-> _set_station_name(stored), outcome |-> Return(None),
              calls |-> check \o <<Call("store", value),
                                   Call("_set_station_name", station_icao(stored))>>]

setter_no_validation(s, value) ==
    LET stored == [s EXCEPT !._station_icao = value]
    IN  [self |-> _set_station_name(stored), outcome |-> Return(None),
         calls |-> <<Call("store", value),
                     Call("_set_station_name", station_icao(stored))>>]

\* The setter: validate unless the value is the placeholder, store, recompute
\* the name.  An error of the validator leaves the later statements undone.
station_icao_setter(s, value) ==
    LET checked == value # dummy_icao_code
        verdict == IF checked THEN valid_station(value) ELSE Return(None)
        check   == IF checked THEN <<Call("valid_station", value)>> ELSE << >>
        stored  == [s EXCEPT !._station_icao = value]
    IN  IF verdict.kind = "raise"
        THEN [self |-> s, outcome |-> verdict, calls |-> check]
        ELSE [self |-> _set_station_name(stored), outcome |-> Return(None),
              calls |-> check \o <<Call("store", value),
                                   Call("_set_station_name", station_icao(stored))>>]

\* ---------------------------------------------------------- text rendering

\* _make_str_intro: the intro of the text, by mode.
_make_str_intro(s, spoken) ==
    IF spoken
    THEN <<"Weather", "report", "for", s.station_name>>
    ELSE <<"Weather", "for", station_icao(s), s.station_name>>

\* _as_str: the text of the instance's fields, by mode; reading a field that
\* was never assigned raises AttributeError.
_as_str(s, spoken) ==
    IF s.station_name = Unset \/ s.conditions = << >>
    THEN Raise("AttributeError")
    ELSE Return(_make_str_intro(s, spoken)
                \o (IF spoken THEN <<"conditions", "number">> ELSE <<"cond">>)
                \o <<ToString(s.conditions[1])>>)

as_str_spoken(s) ==
    LET text == _as_str(s, TRUE)
    IN  [self |-> s, outcome |-> text,
         rendered |-> <<[spoken |-> TRUE, ret |-> text]>>]

\* as_str: _as_str(spoken=False), returned as it is.
as_str(s) ==
    LET text == _as_str(s, FALSE)
    IN  [self |-> s, outcome |-> text,
         rendered |-> <<[spoken |-> FALSE, ret |-> text]>>]

as_speech_forgets(s) ==
    LET text == _as_str(s, TRUE)
    IN  [self |-> [s EXCEPT !.station_name = "unknown station"],
         outcome |-> text,
         rendered |-> <<[spoken |-> TRUE, ret |-> text]>>]

\* as_speech: _as_str(spoken=True), returned as it is.
as_speech(s) ==
    LET text == _as_str(s, TRUE)
    IN  [self |-> s, outcome |-> text,
         rendered |-> <<[spoken |-> TRUE, ret |-> text]>>]

\* -------------------------------------------------------- mission weather

\* generate_dcs_weather: the simulator's weather for the condition fields;
\* fails when a field was never assigned or holds a value the simulator
\* cannot represent (value 0 here).
generate_dcs_weather(s) ==
    IF s.conditions = << >>
    THEN [outcome |-> Raise("AttributeError"), weather |-> 0]
    ELSE IF s.conditions[1] = 0
    THEN [outcome |-> Raise("RangeError"), weather |-> 0]
    ELSE [outcome |-> Return(None), weather |-> s.conditions[1]]

apply_in_place(s, mission) ==
    LET dcs == generate_dcs_weather(s)
    IN  IF dcs.outcome.kind = "raise"
        THEN [outcome |-> dcs.outcome, after |-> mission, result |-> << >>]
        ELSE [outcome |-> Return(None),
              after |-> [mission EXCEPT !.weather = dcs.weather],
              result |-> <<[mission EXCEPT !.weather = dcs.weather]>>]

\* apply_to_mission_dict: a new mission with the weather of this object and
\* the rest of the mission passed, which is left as it was.
apply_to_mission_dict(s, mission) ==
    LET dcs == generate_dcs_weather(s)
    IN  IF dcs.outcome.kind = "raise"
        THEN [outcome |-> dcs.outcome, after |-> mission, result |-> << >>]
        ELSE [outcome |-> Return(None), after |-> mission,
              result |-> <<Mission("new", dcs.weather, mission.other)>>]

default_overwrite_true == TRUE

\* The default of apply_to_miz's overwrite parameter.
DefaultOverwrite == FALSE

\* The value of the overwrite parameter for the argument as written.
Overwrite(arg) == IF arg = "omitted" THEN DefaultOverwrite ELSE arg = "True"

Exists(content) == content.kind # "absent"

\* apply_to_miz: refuse an existing out_file unless overwrite; open the
\* source archive, apply the weather to its mission, write out_file, and
\* close the archive however the block is left.
apply_to_miz(s, fs, source_file, out_file, overwrite, write_ok) ==
    LET opened == <<Call("open", source_file)>>
        closed == <<Call("close", source_file)>>
        source == fs[source_file]
        applied == apply_to_mission_dict(s, Mission("miz", source.weather, source.other))
    IN  IF Exists(fs[out_file]) /\ ~Overwrite(overwrite)
        THEN [files |-> fs, calls |-> << >>,
              outcome |-> Raise("MissionWriteError")]
        ELSE IF source.kind # "miz"
        THEN [files |-> fs, calls |-> opened \o closed,
              outcome |-> Raise("MissionReadError")]
        ELSE IF applied.outcome.kind = "raise"
        THEN [files |-> fs, calls |-> opened \o closed,
              outcome |-> applied.outcome]
        ELSE IF ~write_ok
        THEN [files |-> [fs EXCEPT ![out_file] = Partial],
              calls |-> opened \o <<Call("write", out_file)>> \o closed,
              outcome |-> Raise("MissionWriteError")]
        ELSE [files |-> [fs EXCEPT ![out_file] =
                            Miz(applied.result[1].weather, applied.result[1].other)],
              calls |-> opened \o <<Call("write", out_file)>> \o closed,
              outcome |-> Return(None)]

\* The archive handles a sequence of calls leaves open.
RECURSIVE open_handles(_)
open_handles(cs) ==
    IF cs = << >> THEN 0
    ELSE LET before == open_handles(SubSeq(cs, 1, Len(cs) - 1))
             fn == cs[Len(cs)].fn
         IN  IF fn = "open" THEN before + 1
             ELSE IF fn = "close" /\ before > 0 THEN before - 1
             ELSE before

NoTexts == [spoken \in BOOLEAN |-> << >>]

\* The record of renderings after an operation that left the instance as
\* `after`: cleared when the instance changed.
Kept(after) == IF after = self THEN texts ELSE NoTexts

\* The record after a rendering in mode `spoken` returned `text`.
Noted(after, spoken, text) ==
    [Kept(after) EXCEPT ![spoken] =
        IF @ = << >> THEN <<text>> ELSE <<@[Len(@)], text>>]

NoMission == [arg |-> << >>, after |-> << >>, result |-> << >>]

\* ----------------------------------------------------------------- actions

Init ==
    /\ dummy_icao_code \in DummyCodes
    /\ self = [_station_icao |-> Unset, station_name |-> Unset,
               conditions |-> << >>]
    /\ last = [op |-> "__init__", arg |-> << >>, outcome |-> Return(None)]
    /\ calls = << >>
    /\ rendered = << >>
    /\ assigned = Unset
    /\ failed = 0
    /\ files \in [Paths -> InitialContents]
    /\ missions = NoMission
    /\ texts = NoTexts

\* weather.station_icao = value
SetStationIcao ==
    \E value \in Codes :
        LET r == station_icao_setter(self, value)
        IN  /\ self' = r.self
            /\ last' = [op |-> "station_icao.setter", arg |-> <<value>>,
                        outcome |-> r.outcome]
            /\ calls' = r.calls
            /\ rendered' = << >>
            /\ assigned' = IF r.outcome.kind = "return" THEN value ELSE assigned
            /\ failed' = IF r.outcome.kind = "return" \/ failed = MaxFailed
                         THEN failed ELSE failed + 1
            /\ missions' = NoMission
            /\ texts' = Kept(r.self)
            /\ UNCHANGED <<dummy_icao_code, files>>

\* weather.station_icao
GetStationIcao ==
    /\ last' = [op |-> "station_icao", arg |-> << >>,
                outcome |-> Return(<<station_icao(self)>>)]
    /\ calls' = << >>
    /\ rendered' = << >>
    /\ missions' = NoMission
    /\ UNCHANGED <<dummy_icao_code, self, assigned, failed, files, texts>>

\* fill_from_metar_data: the condition fields from the parsed report, or a
\* parse error that leaves them as they were.
FillFromMetarData ==
    \E parsable \in BOOLEAN, c \in ConditionValues :
        /\ self' = IF parsable THEN [self EXCEPT !.conditions = <<c>>] ELSE self
        /\ last' = [op |-> "fill_from_metar_data", arg |-> << >>,
                    outcome |-> IF parsable THEN Return(None)
                                ELSE Raise("ReportParseError")]
        /\ calls' = << >>
        /\ rendered' = << >>
        /\ missions' = NoMission
        /\ texts' = Kept(self')
        /\ UNCHANGED <<dummy_icao_code, assigned, failed, files>>

\* weather.as_str()
AsStr ==
    LET r == as_str(self)
    IN  /\ self' = r.self
        /\ last' = [op |-> "as_str", arg |-> << >>, outcome |-> r.outcome]
        /\ rendered' = r.rendered
        /\ calls' = << >>
        /\ missions' = NoMission
        /\ texts' = Noted(r.self, FALSE, r.outcome)
        /\ UNCHANGED <<dummy_icao_code, assigned, failed, files>>

\* weather.as_speech()
AsSpeech ==
    LET r == as_speech(self)
    IN  /\ self' = r.self
        /\ last' = [op |-> "as_speech", arg |-> << >>, outcome |-> r.outcome]
        /\ rendered' = r.rendered
        /\ calls' = << >>
        /\ missions' = NoMission
        /\ texts' = Noted(r.self, TRUE, r.outcome)
        /\ UNCHANGED <<dummy_icao_code, assigned, failed, files>>

\* weather.apply_to_mission_dict(mission)
ApplyToMissionDict ==
    \E w \in ConditionValues, o \in Others :
        LET mission == Mission("arg", w, o)
            r == apply_to_mission_dict(self, mission)
        IN  /\ missions' = [arg |-> <<mission>>, after |-> <<r.after>>,
                            result |-> r.result]
            /\ last' = [op |-> "apply_to_mission_dict", arg |-> << >>,
                        outcome |-> r.outcome]
            /\ calls' = << >>
            /\ rendered' = << >>
            /\ UNCHANGED <<dummy_icao_code, self, assigned, failed, files, texts>>

\* weather.apply_to_miz(source_file, out_file[, overwrite=...])
ApplyToMiz ==
    \E source_file \in Paths, out_file \in Paths, overwrite \in OverwriteArgs,
       write_ok \in BOOLEAN :
        LET r == apply_to_miz(self, files, source_file, out_file, overwrite, write_ok)
        IN  /\ files' = r.files
            /\ last' = [op |-> "apply_to_miz",
                        arg |-> <<source_file, out_file, overwrite>>,
                        outcome |-> r.outcome]
            /\ calls' = r.calls
            /\ rendered' = << >>
            /\ missions' = NoMission
            /\ UNCHANGED <<dummy_icao_code, self, assigned, failed, texts>>

Next ==
    \/ SetStationIcao
    \/ GetStationIcao
    \/ FillFromMetarData
    \/ AsStr
    \/ AsSpeech
    \/ ApplyToMissionDict
    \/ ApplyToMiz

Spec == Init /\ [][Next]_vars

\* The station property and the text rendering read and write the instance
\* only; the mission operations read the condition fields and the files.
\* Each group is also run on its own, the other group's state fixed.
StationInit == Init /\ files = [p \in Paths |-> Absent]

StationNext ==
    \/ SetStationIcao
    \/ GetStationIcao
    \/ FillFromMetarData
    \/ AsStr
    \/ AsSpeech

StationSpec == StationInit /\ [][StationNext]_vars

MissionInit == Init /\ dummy_icao_code = "XXXX"

MissionNext ==
    \/ FillFromMetarData
    \/ ApplyToMissionDict
    \/ ApplyToMiz

MissionSpec == MissionInit /\ [][MissionNext]_vars

\* ------------------------------------------------------------------ claims

\* The positions in a sequence of calls of the calls to `fn`.
CallsTo(cs, fn) == {i \in DOMAIN cs : cs[i].fn = fn}

IsAssignment(op) == op.op = "station_icao.setter"

\* The name _set_station_name's contract gives an identifier.
NameOf(icao) ==
    IF icao \in KnownAirports THEN AirportName(icao) ELSE "unknown station"

\* C1: an assignment of a value that is not the placeholder and that the
\* validator rejects raises the validator's error, leaves the instance (the
\* stored identifier and the station name) as it was and does not call
\* _set_station_name.
C1_RejectedAssignmentChangesNothing ==
    [][(/\ IsAssignment(last')
        /\ last'.arg[1] # dummy_icao_code
        /\ valid_station(last'.arg[1]).kind = "raise")
       => (/\ last'.outcome = valid_station(last'.arg[1])
           /\ self' = self
           /\ CallsTo(calls', "_set_station_name") = {}
           /\ CallsTo(calls', "store") = {})]_vars

\* A rejected assignment to an instance whose identifier and name were set.
C1_Witness ==
    /\ IsAssignment(last)
    /\ last.outcome = Raise("BadStation")
    /\ self._station_icao = "KJFK"
    /\ self.station_name = "John F Kennedy Intl"

\* C2: every assignment that succeeds calls _set_station_name exactly once,
\* after the value was stored, so that the name is the name of the new
\* identifier.
C2_NameRecomputedAfterStore ==
    (IsAssignment(last) /\ last.outcome.kind = "return")
    => (/\ Cardinality(CallsTo(calls, "_set_station_name")) = 1
        /\ Cardinality(CallsTo(calls, "store")) = 1
        /\ \A i \in CallsTo(calls, "store"), j \in CallsTo(calls, "_set_station_name") :
              /\ i < j
              /\ calls[i].arg = last.arg[1]
              /\ calls[j].arg = last.arg[1]
        /\ self._station_icao = last.arg[1]
        /\ self.station_name = NameOf(last.arg[1]))

\* The placeholder assigned to an instance that held a named station, after a
\* failed assignment.
C2_Witness ==
    /\ IsAssignment(last)
    /\ last.outcome.kind = "return"
    /\ last.arg[1] = dummy_icao_code
    /\ self.station_name = "unknown station"
    /\ failed > 0

\* C3: while no assignment has succeeded, a read of station_icao returns the
\* configured placeholder and does not raise, whatever number of assignments
\* failed.
C3_UnsetReadsPlaceholder ==
    (last.op = "station_icao" /\ assigned = Unset)
    => last.outcome = Return(<<dummy_icao_code>>)

\* A read after MaxFailed failed assignments and no successful one.
C3_Witness ==
    /\ last.op = "station_icao"
    /\ assigned = Unset
    /\ failed = MaxFailed
    /\ last.outcome.kind = "return"

\* C4: an assignment of a code the validator accepts does not raise and
\* leaves a station name that is not empty: "unknown station" when the
\* airport database does not know the code.
C4_ValidCodeGetsName ==
    (IsAssignment(last) /\ last.arg[1] \in ValidStations)
    => (/\ last.outcome = Return(None)
        /\ self.station_name \notin {Unset, ""}
        /\ (last.arg[1] \notin KnownAirports
              => self.station_name = "unknown station"))

\* A valid code the airport database does not know was assigned.
C4_Witness ==
    /\ IsAssignment(last)
    /\ last.arg[1] = "UGTB"
    /\ last.outcome.kind = "return"
    /\ self.station_name = "unknown station"

\* C5: as_str returns what its one call _as_str(spoken=False) returned, and
\* as_speech what its one call _as_str(spoken=True) returned, a raised error
\* included.
C5_RenderingDelegates ==
    /\ last.op = "as_str"
         => /\ rendered = <<[spoken |-> FALSE, ret |-> last.outcome]>>
            /\ last.outcome = _as_str(self, FALSE)
    /\ last.op = "as_speech"
         => /\ rendered = <<[spoken |-> TRUE, ret |-> last.outcome]>>
            /\ last.outcome = _as_str(self, TRUE)

\* as_speech returned a text.
C5_Witness ==
    /\ last.op = "as_speech"
    /\ last.outcome.kind = "return"
    /\ Len(rendered) = 1

C7_ExistingOutFileRefused ==
    /\ [](open_handles(calls) = 0)
    /\ [][(/\ last'.op = "apply_to_miz"
           /\ last'.arg[3] \in {"omitted", "False"}
           /\ Exists(files[last'.arg[2]]))
          => (/\ last'.outcome = Raise("MissionWriteError")
              /\ files' = files)]_vars

\* The refusal, overwrite omitted, of an out_file that holds an archive.
C7_Witness ==
    /\ last.op = "apply_to_miz"
    /\ last.arg[3] = "omitted"
    /\ last.outcome = Raise("MissionWriteError")
    /\ calls = << >>
    /\ files[last.arg[2]].kind = "miz"

\* C8: apply_to_mission_dict leaves the mission passed as it was, and the
\* mission it returns is another object that differs from it in the weather
\* only.
C8_InputMissionNotMutated ==
    last.op = "apply_to_mission_dict"
    => (/\ missions.after = missions.arg
        /\ last.outcome.kind = "return"
             => (/\ Len(missions.result) = 1
                 /\ missions.result[1].id # missions.arg[1].id
                 /\ missions.result[1].other = missions.arg[1].other))

\* A mission was returned whose weather is not the weather passed.
C8_Witness ==
    /\ last.op = "apply_to_mission_dict"
    /\ last.outcome.kind = "return"
    /\ missions.result[1].weather # missions.arg[1].weather

\* C9: an assignment of the placeholder does not call the validator, succeeds,
\* stores the value and recomputes the name; an assignment of any other
\* value calls the validator once, first.
C9_PlaceholderBypassesValidation ==
    IsAssignment(last)
    => (/\ last.arg[1] = dummy_icao_code
             => (/\ CallsTo(calls, "valid_station") = {}
                 /\ last.outcome = Return(None)
                 /\ self._station_icao = last.arg[1]
                 /\ CallsTo(calls, "_set_station_name") # {})
        /\ last.arg[1] # dummy_icao_code
             => (/\ CallsTo(calls, "valid_station") = {1}
                 /\ calls[1].arg = last.arg[1]))

\* A placeholder the validator rejects was assigned.
C9_Witness ==
    /\ IsAssignment(last)
    /\ last.arg[1] = dummy_icao_code
    /\ valid_station(last.arg[1]).kind = "raise"
    /\ self._station_icao = dummy_icao_code

\* C10: the identifier read is the placeholder or a code the validator
\* accepts; once an assignment succeeded, it is the value of the last one
\* that did, and the identifier is never unset again.
C10_IdentifierInvariant ==
    /\ [](/\ station_icao(self) = dummy_icao_code
             \/ valid_station(station_icao(self)).kind = "return"
          /\ assigned # Unset
               => (self._station_icao = assigned /\ station_icao(self) = assigned)
          /\ (last.op = "station_icao" /\ assigned # Unset)
               => last.outcome = Return(<<assigned>>))
    /\ [][self._station_icao # Unset => self'._station_icao # Unset]_vars

\* A read after a valid code was assigned and later assignments failed.
C10_Witness ==
    /\ last.op = "station_icao"
    /\ assigned = "UGTB"
    /\ failed = MaxFailed
    /\ last.outcome = Return(<<"UGTB">>)

====
